---- MODULE Spec2Model ----
(***************************************************************************)
(* Model of the continuousprint Driver state machine (driver.py) and of    *)
(* the Job/Set counters of the work-accounting model (storage/database.py).*)
(*                                                                         *)
(* Spec   : the Driver, fed (Action, Printer, path) by its caller, on top  *)
(*          of a Queue Facade holding one Job without material needs.      *)
(* SpecMaterials : the Driver with its retry settings left as constructed, *)
(*          fed (Action, Printer, materials), over Sets that need          *)
(*          materials.                                                     *)
(* SpecDB : the Job/Set counter operations on their own, started from any  *)
(*          counters the storage constraints allow.                        *)
(***************************************************************************)
EXTENDS Integers, Sequences, FiniteSets, TLC

\* ---------------------------------------------------------------- bounds
MaxSets == 2           \* Sets in the Job (SpecDB)
MaxSetCount == 2       \* largest Set.count (SpecDB)
MaxJobCount == 2       \* largest Job.count (SpecDB)
MaxTicks == 1          \* a Run is followed for MaxTicks clock steps after its start
MaxMaxRetries == 2     \* largest max_retries that is set

\* the default of retry_threshold_seconds, 60 * 60
DefaultThreshold == 3600

\* ---------------------------------------------------------------- values
NoneVal == "<None>"    \* Python's None, where it is compared with strings

Actions == {"ACTIVATE", "DEACTIVATE", "SUCCESS", "FAILURE", "SPAGHETTI", "TICK"}

Printers == {"IDLE", "PAUSED", "BUSY"}

States == {"Unknown", "Inactive", "StartPrint", "Printing", "Paused",
           "SpaghettiRecovery", "Failure", "Success", "StartClearing",
           "Clearing", "StartFinishing", "Finishing"}

Max(a, b) == IF a >= b THEN a ELSE b

\* str() of the small integers and of None that the status messages format
Str(x) == CASE x = 0 -> "0" [] x = 1 -> "1" [] x = 2 -> "2" [] x = 3 -> "3"
            [] OTHER -> "n"

StrOrNone(x) == IF x = NoneVal THEN "None" ELSE x

\* Python 3 round() of the quotient n / d: half goes to the even neighbour
RoundDiv(n, d) ==
    LET q == n \div d
        r == n % d
    IN  IF 2 * r < d THEN q
        ELSE IF 2 * r > d THEN q + 1
        ELSE IF q % 2 = 0 THEN q ELSE q + 1

timeAgo(elapsed) ==
    IF elapsed < 60 * 60 THEN <<Str(RoundDiv(elapsed, 60)), "minutes">>
    ELSE IF elapsed < 60 * 60 * 24 THEN <<Str(RoundDiv(elapsed, 60 * 60)), "hours">>
    ELSE <<Str(RoundDiv(elapsed, 60 * 60 * 24)), "days">>

\* ------------------------------------------------------- database.py
\* A Job is [count, remaining]; its Sets are a sequence, in rank order, of
\* [path, count, remaining, material_keys].  material_keys is the CSV field
\* as a sequence of tokens: a material key, or the separator ",".

RECURSIVE SplitFrom(_, _, _)
SplitFrom(toks, i, field) ==
    IF i > Len(toks) THEN <<field>>
    ELSE IF toks[i] = "," THEN <<field>> \o SplitFrom(toks, i + 1, "")
    ELSE SplitFrom(toks, i + 1, toks[i])

\* str.split(","): one entry per separator plus one; an entry with nothing
\* between two separators is the empty string
Split(toks) == SplitFrom(toks, 1, "")

materials(s) == IF s.material_keys = <<>> THEN <<>> ELSE Split(s.material_keys)

has_incomplete_sets(sets) == \E i \in 1..Len(sets) : sets[i].remaining > 0

has_work(job, sets) == has_incomplete_sets(sets) \/ job.remaining > 0

\* Job.decrement without the floor at 0
Job_decrement_nofloor(d) ==
    LET rem == d.job.remaining - 1
    IN  [job  |-> [d.job EXCEPT !.remaining = rem],
         sets |-> IF rem > 0
                  THEN [i \in 1..Len(d.sets) |->
                           [d.sets[i] EXCEPT !.remaining = d.sets[i].count]]
                  ELSE d.sets]

\* Job.decrement starting a new pass also when no pass is left
Job_decrement_reset(d) ==
    LET rem == Max(d.job.remaining - 1, 0)
    IN  [job  |-> [d.job EXCEPT !.remaining = rem],
         sets |-> IF rem >= 0
                  THEN [i \in 1..Len(d.sets) |->
                           [d.sets[i] EXCEPT !.remaining = d.sets[i].count]]
                  ELSE d.sets]

\* Job.decrement, on the stored Job and Sets d = [job, sets]
Job_decrement(d) ==
    LET rem == Max(d.job.remaining - 1, 0)
    IN  [job  |-> [d.job EXCEPT !.remaining = rem],
         sets |-> IF rem > 0
                  THEN [i \in 1..Len(d.sets) |->
                           [d.sets[i] EXCEPT !.remaining = d.sets[i].count]]
                  ELSE d.sets]

\* Job.normalize
Job_normalize(d) ==
    IF d.job.remaining = 0 THEN d
    ELSE IF has_incomplete_sets(d.sets) THEN d
    ELSE Job_decrement(d)

\* the value Job.normalize returns
Job_normalize_result(d) ==
    IF d.job.remaining = 0 THEN has_incomplete_sets(d.sets)
    ELSE IF has_incomplete_sets(d.sets) THEN TRUE
    ELSE LET e == Job_decrement(d) IN has_work(e.job, e.sets)

\* Set.decrement taking the whole of the Set's remaining at once
Set_decrement_all(d, i) ==
    LET e == [d EXCEPT !.sets[i].remaining = 0]
    IN  IF ~has_incomplete_sets(e.sets) THEN Job_decrement(e) ELSE e

\* Set.decrement looking for incomplete Sets before its own reduction
Set_decrement_early(d, i) ==
    LET e == [d EXCEPT !.sets[i].remaining = Max(0, d.sets[i].remaining - 1)]
    IN  IF ~has_incomplete_sets(d.sets) THEN Job_decrement(e) ELSE e

\* Set.decrement of the Set at position i
Set_decrement(d, i) ==
    LET e == [d EXCEPT !.sets[i].remaining = Max(0, d.sets[i].remaining - 1)]
    IN  IF ~has_incomplete_sets(e.sets) THEN Job_decrement(e) ELSE e

\* ------------------------------------------------------------- state
VARIABLES
    state,                    \* Driver.state, by the name of the state
    retries,                  \* Driver.retries
    retry_on_pause,           \* Driver.retry_on_pause
    max_retries,              \* Driver.max_retries
    retry_threshold_seconds,  \* Driver.retry_threshold_seconds
    status,                   \* Driver.status, a tuple of message parts
    cur_path,                 \* Driver._cur_path
    cur_materials,            \* Driver._cur_materials
    job,                      \* the stored Job
    sets,                     \* the stored Sets of the Job, by rank
    cur,                      \* Queue Facade: position of the selected Set, 0 = none
    run,                      \* Queue Facade: the open Run, [open, start, set]
    now,                      \* the clock read by time.time() and Run.start
    last,                     \* the action() call that has just returned and what
                              \* it did; NoCall once its caller has taken the result
    update_ui,                \* Driver._update_ui
    order,                    \* what the Script Runner was asked to do since the
                              \* Driver left Inactive: [started, needClear,
                              \* finishing], kept where order.on
    dbLast                    \* the latest counter operation (SpecDB)

vars == <<state, retries, retry_on_pause, max_retries, retry_threshold_seconds,
          status, cur_path, cur_materials, job, sets, cur, run, now, last,
          update_ui, order, dbLast>>

driverVars == <<state, retries, retry_on_pause, max_retries,
                retry_threshold_seconds, status, cur_path, cur_materials,
                cur, run, now, last, update_ui, order>>

\* ------------------------------------------------- one call, in progress
\* While one action() call runs, c holds what the call reads and writes:
\*   retries, status, update_ui, job, sets, cur, run, now : as the fields
\*   calls  : the Queue Facade and Script Runner calls made so far
\*   reopened : begin_run() was called while a Run was open
\*   nxt    : the state function's return value (NoneVal for None)
\*   raised : an exception left the state function
\*   cur_path, cur_materials, retry_on_pause, max_retries,
\*   retry_threshold_seconds : read only
\*   ok     : what Script Runner start_print() returns in this call

Call(c, name) == [c EXCEPT !.calls = Append(@, name)]

Ret(c, st) == [c EXCEPT !.nxt = st]

Raise(c) == [c EXCEPT !.raised = TRUE]

\* _set_status without the comparison with the message shown
set_status_always(c, st) == [c EXCEPT !.update_ui = TRUE, !.status = st]

set_status(c, st) ==
    IF st # c.status THEN [c EXCEPT !.update_ui = TRUE, !.status = st] ELSE c

\* --------------------------------------------------------- Queue Facade
FirstIncomplete(ss) ==
    IF has_incomplete_sets(ss)
    THEN CHOOSE i \in 1..Len(ss) :
            /\ ss[i].remaining > 0
            /\ \A k \in 1..(i - 1) : ss[k].remaining = 0
    ELSE 0

get_set_or_acquire(c) ==
    LET sel == IF c.cur # 0 /\ c.sets[c.cur].remaining > 0
               THEN c.cur
               ELSE FirstIncomplete(c.sets)
    IN  [Call(c, "get_set_or_acquire") EXCEPT !.cur = sel]

get_set(c) == Call(c, "get_set")

get_run(c) == Call(c, "get_run")

\* The clock's origin is immaterial: it is moved to the start of the Run
\* that opens, so that Run.start is 0 and now is the time since then.
begin_run(c) ==
    [Call(c, "begin_run") EXCEPT
        !.run = [open |-> TRUE, start |-> 0, set |-> c.cur],
        !.now = 0,
        !.reopened = c.run.open]

NoRun == [open |-> FALSE, start |-> 0, set |-> 0]

end_run(c, result) ==
    LET c1 == Call(c, IF result = "success" THEN "end_run(success)"
                      ELSE "end_run(failure)")
    IN  IF ~c.run.open THEN c1
        ELSE IF result = "success"
        THEN LET d == Set_decrement([job |-> c.job, sets |-> c.sets], c.run.set)
             IN  [c1 EXCEPT !.run = NoRun, !.now = 0, !.job = d.job, !.sets = d.sets]
        ELSE [c1 EXCEPT !.run = NoRun, !.now = 0]

\* ------------------------------------------------------------ driver.py
LoadedAt(cm, i) == IF i <= Len(cm) THEN cm[i] ELSE NoneVal

\* the first tool slot (from 1) whose required material is not loaded, or 0
FirstMismatch(ms, cm) ==
    LET bad == {i \in 1..Len(ms) : ms[i] # NoneVal /\ ms[i] # LoadedAt(cm, i)}
    IN  IF bad = {} THEN 0 ELSE CHOOSE i \in bad : \A k \in bad : i <= k

state_unknown(c, a, p) ==
    IF a = "DEACTIVATE" THEN Ret(c, "Inactive") ELSE c

state_start_print(c, a, p) ==
    IF a = "DEACTIVATE" THEN Ret(c, "Inactive")
    ELSE IF p # "IDLE" THEN set_status(c, <<"Waiting for printer to be ready">>)
    ELSE LET c1 == get_set_or_acquire(c)
         IN  IF c1.cur = 0
             THEN Ret(set_status(c1, <<"No work to do; going inactive">>), "Inactive")
             ELSE LET ms == materials(c1.sets[c1.cur])
                      i  == FirstMismatch(ms, c1.cur_materials)
                  IN  IF i # 0
                      THEN set_status(c1, <<"Waiting for spool", ms[i], "in tool",
                                            Str(i - 1), "currently",
                                            StrOrNone(LoadedAt(c1.cur_materials, i))>>)
                      ELSE LET c2 == Call(begin_run(c1), "start_print")
                           IN  IF c2.ok THEN Ret(c2, "Printing") ELSE c2

\* _enter_start_print without the call of the state function on entry
enter_start_print_deferred(c, a, p) == Ret(c, "StartPrint")

enter_start_print(c, a, p) ==
    LET r == state_start_print(c, a, p)
    IN  IF r.nxt # NoneVal THEN r ELSE Ret(r, "StartPrint")

state_inactive(c, a, p) ==
    LET c0 == [c EXCEPT !.retries = 0]
    IN  IF a = "ACTIVATE"
        THEN IF p # "IDLE" THEN Ret(c0, "Printing")
             ELSE enter_start_print(c0, a, p)
        ELSE IF p = "IDLE"
        THEN set_status(c0, <<"Inactive (click Start Managing)">>)
        ELSE set_status(c0, <<"Inactive (active print continues unmanaged)">>)

\* _state_printing with the threshold itself inside the retry window
state_printing_inclusive(c, a, p) ==
    IF a = "DEACTIVATE" THEN Ret(c, "Inactive")
    ELSE IF a = "FAILURE" THEN Ret(c, "Failure")
    ELSE IF a = "SPAGHETTI"
    THEN LET c1 == get_run(c)
         IN  IF ~c1.run.open THEN Raise(c1)
             ELSE LET elapsed == c1.now - c1.run.start
                  IN  IF c1.retry_on_pause /\ elapsed <= c1.retry_threshold_seconds
                      THEN Ret(c1, "SpaghettiRecovery")
                      ELSE Ret(set_status(c1,
                                 <<"Paused after">> \o timeAgo(elapsed)
                                 \o timeAgo(c1.retry_threshold_seconds)
                                 \o <<"awaiting user">>), "Paused")
    ELSE IF a = "SUCCESS"
    THEN LET c1 == get_set(c)
         IN  IF c1.cur = 0 THEN Raise(c1)
             ELSE IF c1.sets[c1.cur].path = c1.cur_path THEN Ret(c1, "Success")
             ELSE Ret(c1, "StartClearing")
    ELSE IF p = "BUSY"
    THEN LET c1 == get_set(c)
         IN  IF c1.cur # 0 THEN set_status(c1, <<"Printing">>) ELSE c1
    ELSE IF p = "PAUSED" THEN Ret(c, "Paused")
    ELSE Ret(c, "Success")

state_printing(c, a, p) ==
    IF a = "DEACTIVATE" THEN Ret(c, "Inactive")
    ELSE IF a = "FAILURE" THEN Ret(c, "Failure")
    ELSE IF a = "SPAGHETTI"
    THEN LET c1 == get_run(c)
         IN  IF ~c1.run.open THEN Raise(c1)
             ELSE LET elapsed == c1.now - c1.run.start
                  IN  IF c1.retry_on_pause /\ elapsed < c1.retry_threshold_seconds
                      THEN Ret(c1, "SpaghettiRecovery")
                      ELSE Ret(set_status(c1,
                                 <<"Paused after">> \o timeAgo(elapsed)
                                 \o timeAgo(c1.retry_threshold_seconds)
                                 \o <<"awaiting user">>), "Paused")
    ELSE IF a = "SUCCESS"
    THEN LET c1 == get_set(c)
         IN  IF c1.cur = 0 THEN Raise(c1)
             ELSE IF c1.sets[c1.cur].path = c1.cur_path THEN Ret(c1, "Success")
             ELSE Ret(c1, "StartClearing")
    ELSE IF p = "BUSY"
    THEN LET c1 == get_set(c)
         IN  IF c1.cur # 0 THEN set_status(c1, <<"Printing">>) ELSE c1
    ELSE IF p = "PAUSED" THEN Ret(c, "Paused")
    ELSE Ret(c, "Success")

state_paused(c, a, p) ==
    LET c1 == set_status(c, <<"Queue paused">>)
    IN  IF a = "DEACTIVATE" \/ p = "IDLE" THEN Ret(c1, "Inactive")
        ELSE IF p = "BUSY" THEN Ret(c1, "Printing")
        ELSE c1

state_spaghetti_recovery(c, a, p) ==
    LET c1 == set_status(c, <<"Cancelling print (spaghetti seen early in print)">>)
    IN  IF p = "PAUSED" THEN Ret(Call(c1, "cancel_print"), "Failure") ELSE c1

\* _state_failure retrying without counting the retry
state_failure_uncounted(c, a, p) ==
    IF p # "IDLE" THEN c
    ELSE IF c.retries + 1 < c.max_retries
    THEN Ret(c, "StartClearing")
    ELSE Ret(end_run(c, "failure"), "Inactive")

state_failure(c, a, p) ==
    IF p # "IDLE" THEN c
    ELSE IF c.retries + 1 < c.max_retries
    THEN Ret([c EXCEPT !.retries = c.retries + 1], "StartClearing")
    ELSE Ret(end_run(c, "failure"), "Inactive")

\* _state_success looking at the selected Set without selecting the next
state_success_stale(c, a, p) ==
    LET c1 == [end_run(c, "success") EXCEPT !.retries = 0]
        c2 == get_set(c1)
    IN  IF c2.cur # 0 THEN Ret(c2, "StartClearing") ELSE Ret(c2, "StartFinishing")

\* _state_success going on to the next print over the finished one
state_success_noclear(c, a, p) ==
    LET c1 == [end_run(c, "success") EXCEPT !.retries = 0]
        c2 == get_set_or_acquire(c1)
    IN  IF c2.cur # 0 THEN Ret(c2, "StartPrint") ELSE Ret(c2, "StartFinishing")

state_success(c, a, p) ==
    LET c1 == [end_run(c, "success") EXCEPT !.retries = 0]
        c2 == get_set_or_acquire(c1)
    IN  IF c2.cur # 0 THEN Ret(c2, "StartClearing") ELSE Ret(c2, "StartFinishing")

state_clearing(c, a, p) ==
    IF a = "DEACTIVATE" THEN Ret(c, "Inactive")
    ELSE IF a = "SUCCESS" THEN enter_start_print(c, a, p)
    ELSE IF a = "FAILURE"
    THEN Ret(set_status(c, <<"Error occurred clearing bed - aborting">>), "Inactive")
    ELSE IF p = "IDLE" THEN enter_start_print(c, a, p)
    ELSE set_status(c, <<"Clearing bed">>)

\* _state_start_clearing calling the Clearing state function on entry
state_start_clearing_enter(c, a, p) ==
    IF a = "DEACTIVATE" THEN Ret(c, "Inactive")
    ELSE IF p # "IDLE" THEN set_status(c, <<"Waiting for printer to be ready">>)
    ELSE LET r == state_clearing(Call(c, "clear_bed"), a, p)
         IN  IF r.nxt # NoneVal THEN r ELSE Ret(r, "Clearing")

state_start_clearing(c, a, p) ==
    IF a = "DEACTIVATE" THEN Ret(c, "Inactive")
    ELSE IF p # "IDLE" THEN set_status(c, <<"Waiting for printer to be ready">>)
    ELSE Ret(Call(c, "clear_bed"), "Clearing")

\* _state_start_finishing without the wait for an idle printer
state_start_finishing_eager(c, a, p) ==
    IF a = "DEACTIVATE" THEN Ret(c, "Inactive")
    ELSE Ret(Call(c, "run_finish_script"), "Finishing")

state_start_finishing(c, a, p) ==
    IF a = "DEACTIVATE" THEN Ret(c, "Inactive")
    ELSE IF p # "IDLE" THEN set_status(c, <<"Waiting for printer to be ready">>)
    ELSE Ret(Call(c, "run_finish_script"), "Finishing")

state_finishing(c, a, p) ==
    IF a \in {"DEACTIVATE", "SUCCESS", "FAILURE"} THEN Ret(c, "Inactive")
    ELSE IF p = "IDLE" THEN Ret(c, "Inactive")
    ELSE set_status(c, <<"Finishing up">>)

\* self.state(a, p): the call of the bound state function
Dispatch(st, c, a, p) ==
    CASE st = "Unknown"           -> state_unknown(c, a, p)
      [] st = "Inactive"          -> state_inactive(c, a, p)
      [] st = "StartPrint"        -> state_start_print(c, a, p)
      [] st = "Printing"          -> state_printing(c, a, p)
      [] st = "Paused"            -> state_paused(c, a, p)
      [] st = "SpaghettiRecovery" -> state_spaghetti_recovery(c, a, p)
      [] st = "Failure"           -> state_failure(c, a, p)
      [] st = "Success"           -> state_success(c, a, p)
      [] st = "StartClearing"     -> state_start_clearing(c, a, p)
      [] st = "Clearing"          -> state_clearing(c, a, p)
      [] st = "StartFinishing"    -> state_start_finishing(c, a, p)
      [] st = "Finishing"         -> state_finishing(c, a, p)

\* ------------------------------------------------------------- inputs
\* the paths of the Sets of the queue the Driver works on
SetPaths == <<"s1.gcode", "s2.gcode">>

SetPath(k) == IF k <= Len(SetPaths) THEN SetPaths[k] ELSE "s.gcode"

\* path arguments of action(): none given, or the path the printer reports
PathInputs == {NoneVal, "s1.gcode"}

\* materials arguments of action(): none given, or the loaded material of
\* each tool slot
MaterialInputs == {<<>>, <<"R">>, <<"B", "R">>}

\* material_keys of the first Set of the queue: a key for tool slot 0, or an
\* empty entry for slot 0 and a key for slot 1
MaterialKeys == {<<"R">>, <<",", "R">>}

\* retry_threshold_seconds arguments of set_retry_on_pause()
Thresholds == {DefaultThreshold}

NoCall == [a |-> NoneVal, p |-> NoneVal, from |-> NoneVal, calls |-> <<>>,
           ret |-> FALSE, raised |-> FALSE, retries |-> 0, ok |-> FALSE,
           reopened |-> FALSE, msg_changed |-> FALSE, dup |-> FALSE,
           second |-> FALSE]

\* nothing asked of the Script Runner since the Driver was last Inactive
NoOrder == [on |-> TRUE, started |-> FALSE, needClear |-> FALSE,
            finishing |-> FALSE]

\* no record kept of what the Script Runner is asked
Unobserved == [NoOrder EXCEPT !.on = FALSE]

NoOp == [op |-> NoneVal, i |-> 0, job |-> 0, sets |-> <<>>]

\* a Job as it is created: every counter at its count
FreshSets(keys) ==
    [k \in 1..Len(SetPaths) |->
        [path |-> SetPath(k), count |-> 1, remaining |-> 1,
         material_keys |-> IF k = 1 THEN keys ELSE <<>>]]

\* Driver.__init__, over a queue holding one Job
Init ==
    /\ state = "Unknown"
    /\ retries = 0
    /\ retry_on_pause = FALSE
    /\ max_retries = 0
    /\ retry_threshold_seconds = 0
    /\ status = <<"Initializing">>
    /\ update_ui = FALSE
    /\ cur_path = NoneVal
    /\ cur_materials = <<>>
    /\ job = [count |-> 1, remaining |-> 1]
    /\ sets = FreshSets(<<>>)
    /\ cur = 0
    /\ run = NoRun
    /\ now = 0
    /\ last = NoCall
    /\ order = Unobserved
    /\ dbLast = NoOp

\* Driver.action(a, p, path, materials), with Script Runner start_print()
\* returning ok if it is called
action(a, p, path, mats, ok) ==
    /\ last = NoCall
    /\ LET c0 == [retries |-> retries, status |-> status, update_ui |-> update_ui,
                  job |-> job, sets |-> sets, cur |-> cur, run |-> run,
                  now |-> now, calls |-> <<>>, nxt |-> NoneVal,
                  raised |-> FALSE, reopened |-> FALSE,
                  cur_path |-> IF path # NoneVal THEN path ELSE cur_path,
                  cur_materials |-> IF Len(mats) > 0 THEN mats ELSE cur_materials,
                  retry_on_pause |-> retry_on_pause, max_retries |-> max_retries,
                  retry_threshold_seconds |-> retry_threshold_seconds,
                  ok |-> ok]
           r  == Dispatch(state, c0, a, p)
           moved == ~r.raised /\ r.nxt # NoneVal
           dirty == moved \/ r.update_ui
           startedNow == ok /\ \E i \in DOMAIN r.calls : r.calls[i] = "start_print"
           clearedNow == \E i \in DOMAIN r.calls : r.calls[i] = "clear_bed"
       IN  /\ state' = IF moved THEN r.nxt ELSE state
           /\ retries' = r.retries
           /\ status' = r.status
           /\ update_ui' = IF r.raised THEN r.update_ui ELSE FALSE
           /\ cur_path' = c0.cur_path
           /\ cur_materials' = c0.cur_materials
           /\ job' = r.job
           /\ sets' = r.sets
           /\ cur' = r.cur
           /\ run' = r.run
           /\ now' = r.now
           /\ last' = [a |-> a, p |-> p, from |-> state, calls |-> r.calls,
                       ret |-> ~r.raised /\ dirty, raised |-> r.raised,
                       retries |-> retries,
                       ok |-> ok,
                       reopened |-> r.reopened,
                       msg_changed |-> r.status # status,
                       dup |-> startedNow /\ order.needClear /\ ~clearedNow,
                       second |-> startedNow /\ order.started]
           /\ order' = IF ~order.on THEN order
                        ELSE IF moved /\ r.nxt = "Inactive" THEN NoOrder
                        ELSE [on        |-> TRUE,
                              started   |-> order.started \/ startedNow,
                              needClear |-> IF startedNow THEN TRUE
                                            ELSE IF clearedNow THEN FALSE
                                            ELSE order.needClear,
                              finishing |-> \/ order.finishing
                                            \/ state = "Success" /\ moved /\ r.cur = 0]
    /\ UNCHANGED <<retry_on_pause, max_retries, retry_threshold_seconds, dbLast>>

\* Driver.set_retry_on_pause
set_retry_on_pause(enabled, maxr, threshold) ==
    /\ last = NoCall
    /\ retry_on_pause' = enabled
    /\ max_retries' = maxr
    /\ retry_threshold_seconds' = threshold
    /\ UNCHANGED <<state, retries, status, update_ui, cur_path, cur_materials,
                   job, sets, cur, run, now, last, order, dbLast>>

\* the clock that time.time() and datetime.now read moves on while a Run
\* is open
TimePasses ==
    /\ last = NoCall
    /\ run.open
    /\ now < MaxTicks * DefaultThreshold
    /\ now' = now + DefaultThreshold
    /\ UNCHANGED <<state, retries, retry_on_pause, max_retries,
                   retry_threshold_seconds, status, update_ui, cur_path,
                   cur_materials, job, sets, cur, run, last, order, dbLast>>

\* the caller of action() takes the returned value; calls are serial
Return ==
    /\ last # NoCall
    /\ last' = NoCall
    /\ UNCHANGED <<state, retries, retry_on_pause, max_retries,
                   retry_threshold_seconds, status, update_ui, cur_path,
                   cur_materials, job, sets, cur, run, now, order, dbLast>>

\* start_print() is reachable from these states only; elsewhere its answer
\* is never asked for
StartAnswers(st) ==
    IF st \in {"Inactive", "StartPrint", "Clearing"} THEN BOOLEAN ELSE {TRUE}

Next ==
    \/ \E a \in Actions, p \in Printers, path \in PathInputs,
          ok \in StartAnswers(state) :
          action(a, p, path, <<>>, ok)
    \/ Return
    \/ TimePasses
    \/ \E enabled \in BOOLEAN, maxr \in 1..MaxMaxRetries,
          threshold \in Thresholds :
          set_retry_on_pause(enabled, maxr, threshold)

Spec == Init /\ [][Next]_vars

\* ------------------------------------------- the order of the runner calls
\* The Driver with a record kept of what it asks of the Script Runner; the
\* clock stands still, and retries are on or at the constructor's settings.
InitOrder ==
    /\ state = "Unknown"
    /\ retries = 0
    /\ retry_on_pause = FALSE
    /\ max_retries = 0
    /\ retry_threshold_seconds = 0
    /\ status = <<"Initializing">>
    /\ update_ui = FALSE
    /\ cur_path = NoneVal
    /\ cur_materials = <<>>
    /\ job = [count |-> 1, remaining |-> 1]
    /\ sets = FreshSets(<<>>)
    /\ cur = 0
    /\ run = NoRun
    /\ now = 0
    /\ last = NoCall
    /\ order = NoOrder
    /\ dbLast = NoOp

NextOrder ==
    \/ \E a \in Actions, p \in Printers, path \in PathInputs,
          ok \in StartAnswers(state) :
          action(a, p, path, <<>>, ok)
    \/ Return
    \/ \E maxr \in 1..MaxMaxRetries :
          set_retry_on_pause(TRUE, maxr, DefaultThreshold)

SpecOrder == InitOrder /\ [][NextOrder]_vars

\* ------------------------------------------- Sets that need materials
InitMaterials ==
    /\ state = "Unknown"
    /\ retries = 0
    /\ retry_on_pause = FALSE
    /\ max_retries = 0
    /\ retry_threshold_seconds = 0
    /\ status = <<"Initializing">>
    /\ update_ui = FALSE
    /\ cur_path = NoneVal
    /\ cur_materials = <<>>
    /\ job = [count |-> 1, remaining |-> 1]
    /\ \E keys \in MaterialKeys : sets = FreshSets(keys)
    /\ cur = 0
    /\ run = NoRun
    /\ now = 0
    /\ last = NoCall
    /\ order = Unobserved
    /\ dbLast = NoOp

NextMaterials ==
    \/ \E a \in Actions, p \in Printers, mats \in MaterialInputs,
          ok \in StartAnswers(state) :
          action(a, p, NoneVal, mats, ok)
    \/ Return

SpecMaterials == InitMaterials /\ [][NextMaterials]_vars

\* ------------------------------------------------ working through a Job
\* A Job as it is created (remaining = count for the Job and for every Set),
\* worked through by Set.decrement() calls on Sets that have copies left.
\* dbLast.n counts the calls made.
InitWork ==
    /\ state = "Unknown"
    /\ retries = 0
    /\ retry_on_pause = FALSE
    /\ max_retries = 0
    /\ retry_threshold_seconds = 0
    /\ status = <<"Initializing">>
    /\ update_ui = FALSE
    /\ cur_path = NoneVal
    /\ cur_materials = <<>>
    /\ \E jc \in 1..MaxJobCount : job = [count |-> jc, remaining |-> jc]
    /\ \E n \in 1..MaxSets :
          sets \in [1..n -> {[path |-> SetPath(k), count |-> sc, remaining |-> sc,
                              material_keys |-> <<>>] :
                             k \in 1..n, sc \in 1..MaxSetCount}]
    /\ \A k \in 1..Len(sets) : sets[k].path = SetPath(k)
    /\ cur = 0
    /\ run = NoRun
    /\ now = 0
    /\ last = NoCall
    /\ order = Unobserved
    /\ dbLast = [op |-> NoneVal, i |-> 0, n |-> 0]

\* Set.decrement() of a Set that has copies left
WorkStep(i) ==
    /\ sets[i].remaining > 0
    /\ LET d == Set_decrement([job |-> job, sets |-> sets], i)
       IN  job' = d.job /\ sets' = d.sets
    /\ dbLast' = [op |-> "Set.decrement", i |-> i, n |-> dbLast.n + 1]
    /\ UNCHANGED driverVars

NextWork == \E i \in 1..Len(sets) : WorkStep(i)

\* the work goes on while a Set has copies left
SpecWork == InitWork /\ [][NextWork]_vars /\ WF_vars(NextWork)

\* ------------------------------------------------- prints that always fail
\* The Driver with a printer on which every print fails: the queue always has
\* a Set to offer, start_print() answers true, a print ends with a FAILURE
\* event, the printer then comes to rest, and bed clearing completes.

\* the retry settings are changed only while nothing is managed
Configure ==
    /\ state \in {"Unknown", "Inactive"}
    /\ \E enabled \in BOOLEAN, maxr \in 0..MaxMaxRetries :
          set_retry_on_pause(enabled, maxr, DefaultThreshold)

\* the calls this printer and its user make of action(a, p) in state st: the
\* plugin's first call, then ACTIVATE; FAILURE ends every print; the other
\* states see ticks with a busy or an idle printer, and Clearing also the
\* SUCCESS of the clearing script
RetryInput(st, a, p) ==
    \/ st = "Unknown" /\ a = "DEACTIVATE"
    \/ st = "Inactive" /\ a = "ACTIVATE"
    \/ st = "Printing" /\ a = "FAILURE"
    \/ /\ st \in {"Failure", "StartClearing", "Clearing", "StartPrint"}
       /\ a = "TICK"
       /\ p \in {"BUSY", "IDLE"}
    \/ st = "Clearing" /\ a = "SUCCESS"

RetryCall ==
    \E a \in Actions, p \in Printers, path \in PathInputs :
       /\ RetryInput(state, a, p)
       /\ action(a, p, path, <<>>, TRUE)

\* a call other than a tick with the printer still busy
Progress == RetryCall /\ ~(last'.a = "TICK" /\ last'.p = "BUSY")

NextRetry ==
    \/ Configure
    \/ RetryCall
    \/ Return

\* every call returns, and the printer does not stay busy for ever: every
\* print gets its FAILURE event, the printer comes to rest, the clearing
\* script completes
SpecRetry ==
    /\ Init
    /\ [][NextRetry]_vars
    /\ WF_vars(Return)
    /\ SF_vars(Progress)

\* ------------------------------------------------- the counters alone
InitDB ==
    /\ state = "Unknown"
    /\ retries = 0
    /\ retry_on_pause = FALSE
    /\ max_retries = 0
    /\ retry_threshold_seconds = 0
    /\ status = <<"Initializing">>
    /\ update_ui = FALSE
    /\ cur_path = NoneVal
    /\ cur_materials = <<>>
    /\ \E jc \in 1..MaxJobCount : \E jr \in 0..jc :
          job = [count |-> jc, remaining |-> jr]
    /\ \E n \in 1..MaxSets :
          sets \in [1..n -> {[path |-> SetPath(k), count |-> sc, remaining |-> sr,
                              material_keys |-> <<>>] :
                             k \in 1..n, sc \in 1..MaxSetCount, sr \in 0..MaxSetCount}]
    /\ \A k \in 1..Len(sets) :
          sets[k].path = SetPath(k) /\ sets[k].remaining <= sets[k].count
    /\ cur = 0
    /\ run = NoRun
    /\ now = 0
    /\ last = NoCall
    /\ order = Unobserved
    /\ dbLast = NoOp

DoJobDecrement ==
    /\ LET d == Job_decrement([job |-> job, sets |-> sets])
       IN  job' = d.job /\ sets' = d.sets
    /\ dbLast' = [op |-> "Job.decrement", i |-> 0, job |-> job, sets |-> sets]
    /\ UNCHANGED driverVars

DoJobNormalize ==
    /\ LET d == Job_normalize([job |-> job, sets |-> sets])
       IN  job' = d.job /\ sets' = d.sets
    /\ dbLast' = [op |-> "Job.normalize", i |-> 0, job |-> job, sets |-> sets]
    /\ UNCHANGED driverVars

DoSetDecrement(i) ==
    /\ LET d == Set_decrement([job |-> job, sets |-> sets], i)
       IN  job' = d.job /\ sets' = d.sets
    /\ dbLast' = [op |-> "Set.decrement", i |-> i, job |-> job, sets |-> sets]
    /\ UNCHANGED driverVars

NextDB ==
    \/ DoJobDecrement
    \/ DoJobNormalize
    \/ \E i \in 1..Len(sets) : DoSetDecrement(i)

SpecDB == InitDB /\ [][NextDB]_vars

\* ============================================================== claims
RunnerCalls == {"start_print", "cancel_print", "clear_bed", "run_finish_script"}

Count(calls, names) == Cardinality({i \in DOMAIN calls : calls[i] \in names})

Called(name) == Count(last.calls, {name}) > 0

\* the call that has just returned was a no-event call: the state functions
\* look at the printer status only
NoEvent == last.a \in {"ACTIVATE", "SPAGHETTI", "TICK"}

\* C1: an action() call with event DEACTIVATE leaves the Driver in Inactive,
\* whatever state it was in and whatever the printer status
C1_DeactivateEscapes == last.a = "DEACTIVATE" => state = "Inactive"

\* C2: every Job and every Set keeps 0 <= remaining <= count through any
\* sequence of Job.decrement, Job.normalize and Set.decrement
C2_RemainingInBounds ==
    /\ job.remaining >= 0 /\ job.remaining <= job.count
    /\ \A i \in 1..Len(sets) :
          sets[i].remaining >= 0 /\ sets[i].remaining <= sets[i].count

\* a Set.decrement whose cascade into Job.decrement started a new pass
C2_Witness ==
    /\ dbLast.op = "Set.decrement"
    /\ job.remaining = dbLast.job.remaining - 1
    /\ job.remaining > 0
    /\ sets[dbLast.i].remaining = sets[dbLast.i].count

\* C3 as stated: decrement() of a Job or of a Set whose remaining is 0 leaves
\* its stored remaining at 0, whatever the other counters are
C3_FloorIdempotent ==
    /\ (dbLast.op = "Job.decrement" /\ dbLast.job.remaining = 0)
          => job.remaining = 0
    /\ (dbLast.op = "Set.decrement" /\ dbLast.sets[dbLast.i].remaining = 0)
          => sets[dbLast.i].remaining = 0

\* C3 amended: Job.decrement at remaining 0 leaves it at 0; Set.decrement at
\* remaining 0 leaves it at 0 unless every Set of the Job is at 0 and the
\* Job has at least 2 passes left, and then its remaining becomes its count
C3_FloorAmended ==
    /\ (dbLast.op = "Job.decrement" /\ dbLast.job.remaining = 0)
          => job.remaining = 0
    /\ (dbLast.op = "Set.decrement" /\ dbLast.sets[dbLast.i].remaining = 0)
          => sets[dbLast.i].remaining =
                IF /\ ~has_incomplete_sets(dbLast.sets)
                   /\ dbLast.job.remaining >= 2
                THEN sets[dbLast.i].count
                ELSE 0

\* a Set at 0 was decremented with every Set at 0 and one pass left: the
\* cascade took the Job to 0 and the Set stayed at 0
C3_Witness ==
    /\ dbLast.op = "Set.decrement"
    /\ dbLast.sets[dbLast.i].remaining = 0
    /\ ~has_incomplete_sets(dbLast.sets)
    /\ dbLast.job.remaining = 1
    /\ job.remaining = 0
    /\ sets[dbLast.i].remaining = 0

\* C4: with max_retries = 2, the first and the second FAILURE-then-IDLE
\* cycle since the retry counter was 0 both go from Failure to StartClearing
\* without closing the Run
C4_TwoRetries ==
    (max_retries = 2 /\ last.from = "Failure" /\ last.p = "IDLE"
       /\ last.retries < 2)
       => (state = "StartClearing" /\ ~Called("end_run(failure)"))

\* C5: begin_run() is never called while the Run opened by an earlier
\* begin_run() has not been closed by end_run()
C5_RunsPaired == ~last.reopened

\* C6: no action() call raises
C6_NothingRaises == ~last.raised

\* C7: one action() call makes at most one Script Runner call
C7_AtMostOneRunnerCall == Count(last.calls, RunnerCalls) <= 1

\* a call that left Clearing, entered StartPrint and started the print
C7_Witness ==
    /\ last.from = "Clearing"
    /\ state = "Printing"
    /\ last.calls = <<"get_set_or_acquire", "begin_run", "start_print">>

\* C8: in Printing with an open Run, SPAGHETTI goes to SpaghettiRecovery when
\* retry_on_pause is set and the time since Run.start is below the
\* threshold, and otherwise to Paused, without cancel_print(); in
\* SpaghettiRecovery the call with printer PAUSED calls cancel_print() once
\* and goes to Failure, and no other call calls it
C8_SpaghettiWindow ==
    /\ (last.from = "Printing" /\ last.a = "SPAGHETTI" /\ run.open)
          => /\ ~last.raised
             /\ ~Called("cancel_print")
             /\ state = IF retry_on_pause
                           /\ now - run.start < retry_threshold_seconds
                        THEN "SpaghettiRecovery" ELSE "Paused"
    /\ last.from = "SpaghettiRecovery"
          => IF last.p = "PAUSED"
             THEN state = "Failure" /\ Count(last.calls, {"cancel_print"}) = 1
             ELSE state = "SpaghettiRecovery" /\ ~Called("cancel_print")

\* the early SPAGHETTI was answered by the cancellation
C8_Witness ==
    /\ last.from = "SpaghettiRecovery"
    /\ last.p = "PAUSED"
    /\ state = "Failure"
    /\ Called("cancel_print")

C10_SuccessPath ==
    /\ (last.from = "Printing" /\ last.a = "SUCCESS" /\ cur # 0)
          => state = IF sets[cur].path = cur_path THEN "Success"
                     ELSE "StartClearing"
    /\ last.from = "Success"
          => /\ last.calls = <<"end_run(success)", "get_set_or_acquire">>
             /\ retries = 0
             /\ state = IF cur # 0 THEN "StartClearing" ELSE "StartFinishing"

\* the Run of the last Set was closed and the queue found empty
C10_Witness ==
    /\ last.from = "Success"
    /\ Called("end_run(success)")
    /\ cur = 0
    /\ state = "StartFinishing"


\* some tool slot of ms asks for a material (a non-empty entry) that is not
\* the one loaded there
RequiredMismatch(ms, cm) ==
    \E i \in 1..Len(ms) : ms[i] # "" /\ ms[i] # LoadedAt(cm, i)

\* the call that has just returned found the Driver in StartPrint with the
\* printer idle and a Set selected, and was not a DEACTIVATE
StartAttempt ==
    /\ last.from = "StartPrint"
    /\ last.p = "IDLE"
    /\ last.a # "DEACTIVATE"
    /\ cur # 0

\* C11: in StartPrint with the printer IDLE and a Set selected, a slot that
\* requires a material other than the one loaded keeps the Driver in
\* StartPrint with no begin_run() and no start_print(); a call at which every
\* constrained slot has its material loaded calls begin_run() and
\* start_print()
C11_MaterialGate ==
    StartAttempt =>
        IF RequiredMismatch(materials(sets[cur]), cur_materials)
        THEN /\ state = "StartPrint"
             /\ ~Called("begin_run")
             /\ ~Called("start_print")
        ELSE /\ Called("begin_run")
             /\ Called("start_print")

\* C12: an empty entry in a Set's material list puts no constraint on its
\* tool slot: whatever is loaded there, the Set is not made to wait for a
\* spool for that slot
C12_EmptyEntryFree ==
    (/\ last.from \in {"Inactive", "StartPrint", "Clearing"}
     /\ Called("get_set_or_acquire")
     /\ cur # 0)
       => \A i \in 1..Len(materials(sets[cur])) :
             materials(sets[cur])[i] = ""
                => ~(/\ Len(status) = 6
                     /\ status[1] = "Waiting for spool"
                     /\ status[4] = Str(i - 1))


\* C13: action() returns true whenever the call changes the Driver's state;
\* a call that leaves the state as it was returns true only if the status
\* message now differs from the one before the call
C13_DirtyReport ==
    (last # NoCall /\ ~last.raised)
       => /\ state # last.from => last.ret
          /\ (state = last.from /\ last.ret) => last.msg_changed

\* C13 as amended: true is returned whenever the state function returns a
\* next state, which it also does on ACTIVATE in Inactive with an idle printer
\* and nothing to print, where the state and the message stay as they were
C13_DirtyAmended ==
    (last # NoCall /\ ~last.raised)
       => /\ state # last.from => last.ret
          /\ (state = last.from /\ last.ret)
                => \/ last.msg_changed
                   \/ /\ last.from = "Inactive"
                      /\ last.a = "ACTIVATE"
                      /\ last.p = "IDLE"
                      /\ cur = 0

\* a second ACTIVATE with nothing to print: reported although nothing changed
C13_Witness ==
    /\ last.from = "Inactive"
    /\ state = "Inactive"
    /\ last.a = "ACTIVATE"
    /\ last.ret
    /\ ~last.msg_changed


\* the call that has just returned was the ACTIVATE that started managing
Activated ==
    /\ last.a = "ACTIVATE"
    /\ last.from = "Inactive"
    /\ state # "Inactive"

\* the call that has just returned took the Driver back to Inactive
Returned ==
    /\ last.from \notin {NoneVal, "Unknown", "Inactive"}
    /\ state = "Inactive"

\* the step is a call that moves the Driver from Failure to StartClearing
RetryMove ==
    /\ last = NoCall
    /\ state = "Failure"
    /\ state' = "StartClearing"

\* C14: with prints that always fail, a queue that always offers a Set,
\* start_print() answering true and bed clearing completing, the Driver
\* after ACTIVATE eventually comes back to Inactive; between the two it has
\* moved from Failure to StartClearing at most max_retries times (each move
\* adds one to retries, which starts at 0 and is not changed otherwise), and
\* it has called end_run("failure") exactly once, in the call that took it
\* back to Inactive
C14_BoundedRetries ==
    /\ Activated ~> Returned
    /\ [](Activated => retries = 0)
    /\ [][IF RetryMove
          THEN retries' = retries + 1 /\ retries' <= max_retries
          ELSE retries' = retries \/ (state = "Inactive" /\ retries' = 0)]_vars
    /\ [](Returned <=> Called("end_run(failure)"))
    /\ [](Count(last.calls, {"end_run(failure)"}) <= 1)

\* the Run is given up after one retry
C14_Witness ==
    /\ Returned
    /\ last.from = "Failure"
    /\ last.retries = 1
    /\ max_retries = MaxMaxRetries
    /\ Called("end_run(failure)")


\* remaining - 1, not below 0
Floored(n) == IF n >= 1 THEN n - 1 ELSE 0

\* the Sets ss after the Set at position i has lost one of its remaining
Reduced(ss, i) ==
    [k \in 1..Len(ss) |->
        IF k = i THEN [ss[k] EXCEPT !.remaining = Floored(ss[k].remaining)]
        ELSE ss[k]]

\* the stored Job and Sets are those a Job.decrement() makes of jb and ss
AfterJobDecrement(jb, ss) ==
    /\ job = [jb EXCEPT !.remaining = Floored(jb.remaining)]
    /\ Len(sets) = Len(ss)
    /\ \A k \in 1..Len(ss) :
          sets[k] = IF Floored(jb.remaining) > 0
                    THEN [ss[k] EXCEPT !.remaining = ss[k].count]
                    ELSE ss[k]

\* C15: Set.decrement() takes one off the Set's remaining (not below 0) and
\* calls Job.decrement() exactly when no Set of the Job then has remaining
\* > 0; Job.decrement() takes one off the Job's remaining (not below 0) and
\* sets every Set's remaining to its count exactly when the Job's remaining
\* is still > 0, and leaves the Sets alone otherwise
C15_DecrementCascade ==
    /\ dbLast.op = "Job.decrement" => AfterJobDecrement(dbLast.job, dbLast.sets)
    /\ dbLast.op = "Set.decrement" =>
          IF \A k \in 1..Len(dbLast.sets) :
                Reduced(dbLast.sets, dbLast.i)[k].remaining = 0
          THEN AfterJobDecrement(dbLast.job, Reduced(dbLast.sets, dbLast.i))
          ELSE job = dbLast.job /\ sets = Reduced(dbLast.sets, dbLast.i)

\* the last copy of the last Set of the last pass was decremented: the
\* cascade took the Job to 0 and left the Sets at 0
C15_Witness ==
    /\ dbLast.op = "Set.decrement"
    /\ dbLast.sets[dbLast.i].remaining = 1
    /\ dbLast.job.remaining = 1
    /\ job.remaining = 0
    /\ \A k \in 1..Len(sets) : sets[k].remaining = 0


\* C16: a FAILURE event that arrives in StartClearing or in Clearing takes
\* the Driver to Inactive, whatever the printer status, with no clear_bed()
\* and no start_print() in that call
C16_ClearingFailureAborts ==
    (last.a = "FAILURE" /\ last.from \in {"StartClearing", "Clearing"})
       => /\ state = "Inactive"
          /\ ~Called("clear_bed")
          /\ ~Called("start_print")

\* C17: in Paused an ACTIVATE event takes the Driver to Inactive, whatever
\* the printer status, as DEACTIVATE does
C17_PausedActivate ==
    (last.from = "Paused" /\ last.a \in {"ACTIVATE", "DEACTIVATE"})
       => state = "Inactive"


\* the call that has just returned asked nothing of the Script Runner and
\* opened no Run
NothingAsked == Count(last.calls, RunnerCalls \cup {"begin_run"}) = 0

\* the Script Runner is asked to start, clear or finish only with the printer
\* idle, and to cancel only with the printer paused
RunnerCallsByStatus ==
    /\ (Called("start_print") \/ Called("clear_bed") \/ Called("run_finish_script"))
          => last.p = "IDLE"
    /\ Called("cancel_print") => last.p = "PAUSED"

\* C18: start_print(), clear_bed() and run_finish_script() are called only in
\* calls with printer status IDLE and cancel_print() only in a call with
\* PAUSED; a call in StartPrint, StartClearing or StartFinishing with another
\* status than IDLE leaves the Driver in that state, with no Script Runner
\* call and no begin_run()
C18_IdleGate ==
    /\ RunnerCallsByStatus
    /\ (/\ last.from \in {"StartPrint", "StartClearing", "StartFinishing"}
        /\ last.p \in {"PAUSED", "BUSY"})
          => state = last.from /\ NothingAsked

\* C18 as amended: the same, but a DEACTIVATE event in such a call takes the
\* Driver to Inactive, still with no Script Runner call and no begin_run()
C18_IdleGateAmended ==
    /\ RunnerCallsByStatus
    /\ (/\ last.from \in {"StartPrint", "StartClearing", "StartFinishing"}
        /\ last.p \in {"PAUSED", "BUSY"})
          => /\ state = IF last.a = "DEACTIVATE" THEN "Inactive" ELSE last.from
             /\ NothingAsked

\* a tick in StartFinishing with a busy printer: the finish script waits
C18_Witness ==
    /\ last.from = "StartFinishing"
    /\ last.p = "BUSY"
    /\ last.a # "DEACTIVATE"
    /\ state = "StartFinishing"
    /\ NothingAsked


\* C19: while the Driver does not pass through Inactive, a start_print() that
\* returns true is never followed by another one that returns true without a
\* clear_bed() in between; run_finish_script() is called only after the
\* Success state found no Set to print, and from then until the Driver is
\* back in Inactive start_print() is not called
C19_ClearedBetweenPrints ==
    /\ ~last.dup
    /\ Called("run_finish_script") => order.finishing
    /\ Called("start_print") => ~order.finishing

\* a second print was started since the Driver left Inactive, on a cleared bed
C19_Witness ==
    /\ last.second
    /\ ~last.dup
    /\ state = "Printing"

\* the finish script was started after the queue ran out of Sets
C19_WitnessFinish ==
    /\ Called("run_finish_script")
    /\ order.finishing
    /\ order.started


RECURSIVE SumCounts(_, _)
\* the sum of the counts of the first n Sets of ss
SumCounts(ss, n) == IF n = 0 THEN 0 ELSE ss[n].count + SumCounts(ss, n - 1)

\* the number of Set.decrement() calls a fresh Job takes
TotalWork == job.count * SumCounts(sets, Len(sets))

\* C20: a fresh Job worked through by Set.decrement() calls on Sets with
\* remaining > 0 has work exactly until Job.count times the sum of the Sets'
\* counts calls have been made, and that number of calls is reached
C20_TotalWork ==
    /\ [](has_work(job, sets) <=> dbLast.n < TotalWork)
    /\ [](dbLast.n <= TotalWork)
    /\ <>(~has_work(job, sets))

\* a Job of more than one pass over more than one Set has been worked through
C20_Witness ==
    /\ ~has_work(job, sets)
    /\ job.count > 1
    /\ Len(sets) > 1
    /\ dbLast.n = TotalWork

====
